---- MODULE Spec2Model ----
(***************************************************************************)
(* State-machine model of the stochastic local-search loops of             *)
(* countrycrab/heuristics.py (walksat_m, walksat_g and the literal-form    *)
(* policies walksat_SKC, walksat_Gseq, walksat_SKCseq, walksat_B2seq) and  *)
(* of the dispatch and the statistics of countrycrab/solver.py (solve).    *)
(*                                                                         *)
(* One run of a heuristic is one behaviour: Init is the state right before *)
(* the `for it in range(...)` loop; each loop iteration is two steps, the  *)
(* part up to and including the early-stop check (Record) and the part     *)
(* after it (Select: noise, argmax, reduction, flip).                      *)
(*                                                                         *)
(* Scores are kept in hundredths (Scale) so that the noise terms, which    *)
(* are real numbers in the source, stay integers here.                     *)
(***************************************************************************)
EXTENDS Integers, Sequences, FiniteSets, TLC

VARIABLES heuristic, arch, tcam_cores, max_runs, max_flips, n_cores, noise,
          noise_dist, inputs, violated_constr_mat, n_iters, pc,
          inputs0, update, early_stop, config_heuristic

vars == <<heuristic, arch, tcam_cores, max_runs, max_flips, n_cores, noise,
          noise_dist, inputs, violated_constr_mat, n_iters, pc,
          inputs0, update, early_stop, config_heuristic>>

-----------------------------------------------------------------------------
(* Bounds of the model *)

\* largest iteration budget max_flips explored
MaxFlips == 3

\* largest core count n_cores explored
MaxCores == 2

\* walker counts max_runs explored; walkers never read each other's state
RunCounts == {1, 2}

(* Sentinels and fixed values of the source *)

\* cp.nan, the "not computed" marker of the trajectory matrix
NaN == -1

\* the "no flip" value written into update
NoFlip == -1

\* wildcard cell of a ternary pattern row
Wildcard == 2

\* fixed-point scale of the scores: 1.0 is Scale
Scale == 100

\* y[mv_arr < 1] = -100 in walksat_g, in hundredths
MaskG == -100 * Scale

\* np.sqrt(3), in hundredths
Sqrt3 == 173

\* the value of config_heuristic when the config has no 'heuristic' key
Absent == "<absent>"

-----------------------------------------------------------------------------
(* Problem instances.  A clause is a set of literals; literal 2k is        *)
(* variable k, literal 2k+1 its negation (k counted from 0).               *)

Instances ==
    { [nv |-> 2, cl |-> << {0, 2}, {1, 3} >>],
      [nv |-> 1, cl |-> << {0}, {1} >>],
      [nv |-> 2, cl |-> << {0, 2}, {2} >>] }

Vars(a) == 0 .. (a.nv - 1)

Clauses(a) == 1 .. Len(a.cl)

Walkers == 0 .. (max_runs - 1)

\* ternary pattern matrix: row c matches exactly the assignments that
\* falsify every literal of clause c
TcamOf(a) ==
    [c \in Clauses(a) |->
        [v \in Vars(a) |->
            IF 2 * v \in a.cl[c] THEN 0
            ELSE IF 2 * v + 1 \in a.cl[c] THEN 1
            ELSE Wildcard]]

\* contribution matrix: 1 where the variable occurs in the clause
RamOf(a) ==
    [c \in Clauses(a) |->
        [v \in Vars(a) |->
            IF 2 * v \in a.cl[c] \/ 2 * v + 1 \in a.cl[c] THEN 1 ELSE 0]]

\* forward matrix (literals x clauses): literal-clause incidence
RamfOf(a) ==
    [l \in 0 .. (2 * a.nv - 1) |->
        [c \in Clauses(a) |-> IF l \in a.cl[c] THEN 1 ELSE 0]]

\* backward matrix (clauses x literals): the transpose
RambOf(a) ==
    [c \in Clauses(a) |->
        [l \in 0 .. (2 * a.nv - 1) |-> RamfOf(a)[l][c]]]

-----------------------------------------------------------------------------
(* Array helpers *)

RECURSIVE SumOver(_, _)
\* sum of f[x] over x in S
SumOver(f, S) ==
    IF S = {} THEN 0
    ELSE LET x == CHOOSE y \in S : TRUE
         IN  f[x] + SumOver(f, S \ {x})

\* cp.argmax along the last axis: the first index holding the maximum
ArgMax(row) ==
    CHOOSE i \in DOMAIN row :
        /\ \A j \in DOMAIN row : row[j] <= row[i]
        /\ \A j \in DOMAIN row : j < i => row[j] < row[i]

RECURSIVE ChoiceFns(_)
\* all functions f with f[x] \in P[x] for every x of the domain of P
ChoiceFns(P) ==
    IF DOMAIN P = {} THEN { [x \in {} |-> 0] }
    ELSE LET k == CHOOSE x \in DOMAIN P : TRUE
             rest == ChoiceFns([x \in DOMAIN P \ {k} |-> P[x]])
         IN  { [x \in DOMAIN P |-> IF x = k THEN v ELSE f[x]] :
                 v \in P[k], f \in rest }

\* floor(Scale * sqrt(n)) for n >= 0
Sqrt100(n) ==
    CHOOSE r \in 0 .. (Scale * (n + 1)) :
        r * r <= Scale * Scale * n /\ (r + 1) * (r + 1) > Scale * Scale * n

-----------------------------------------------------------------------------
(* campie primitives *)

\* tcam_match firing a row as soon as one of its cells agrees with the assignment
tcam_match_any(x, row) ==
    \E v \in DOMAIN row : row[v] = Wildcard \/ row[v] = x[v]

\* campie.tcam_match for one walker and one pattern row
tcam_match(x, row) ==
    \A v \in DOMAIN row : row[v] = Wildcard \/ row[v] = x[v]

\* flip_indices with -1 read as the last index, as plain array indexing would
flip_indices_wrap(x, u) ==
    LET i == IF u = NoFlip THEN Cardinality(DOMAIN x) - 1 ELSE u
    IN  [v \in DOMAIN x |-> IF v = i THEN 1 - x[v] ELSE x[v]]

\* campie.flip_indices for one walker: index -1 is skipped
flip_indices(x, u) ==
    IF u = NoFlip THEN x
    ELSE [v \in DOMAIN x |-> IF v = u THEN 1 - x[v] ELSE x[v]]

-----------------------------------------------------------------------------
(* walksat_m: match and score *)

\* violated_clauses @ ram restricted to the clause rows in cs, for walker
\* assignment x: one make value per variable
MakeValues(a, cs, x) ==
    [v \in Vars(a) |->
        SumOver([c \in Clauses(a) |->
                    IF tcam_match(x, TcamOf(a)[c]) THEN RamOf(a)[c][v] ELSE 0],
                cs)]

\* ViolatedConstr summing the make values instead of counting the positive ones
ViolatedConstr_sum(mv) == SumOver(mv, DOMAIN mv)

\* cp.sum(make_values > 0, axis=...)
ViolatedConstr(mv) == Cardinality({v \in DOMAIN mv : mv[v] > 0})

\* samples of cp.random.randn, in hundredths
RandnSamples == {-2 * Scale, 0, 2 * Scale}

\* samples of cp.random.uniform(low=-noise*sqrt(3), high=noise*sqrt(3))
UniformSamples == {-(noise * Sqrt3), 0, noise * Sqrt3}

NoiseDists == {"normal", "uniform", "intrinsic"}

\* NoiseTerm with the normal sample not scaled by the noise parameter
NoiseTerm_unscaled(mv, s) ==
    IF noise_dist = "normal" THEN s
    ELSE IF noise_dist = "uniform" THEN s
    ELSE (noise * Sqrt100(mv) * s) \div Scale

\* the noise added to one make value mv under noise_dist, sample s
NoiseTerm(mv, s) ==
    IF noise_dist = "normal" THEN noise * s
    ELSE IF noise_dist = "uniform" THEN s
    ELSE (noise * Sqrt100(mv) * s) \div Scale

SamplesOf == IF noise_dist = "uniform" THEN UniformSamples ELSE RandnSamples

\* make_values += noise term, for one row
AddNoise(mv, ns) ==
    [v \in DOMAIN mv |-> Scale * mv[v] + NoiseTerm(mv[v], ns[v])]

\* SelectUpdate without the overwrite of satisfied walkers by -1
SelectUpdate_nosentinel(scores, vc) == ArgMax(scores)

\* update = argmax(make_values); update[violated_constr == 0] = -1
SelectUpdate(scores, vc) ==
    IF vc = 0 THEN NoFlip ELSE ArgMax(scores)

\* one row of noise samples, one sample per variable
NoiseRows == [Vars(arch) -> SamplesOf]

\* UpdateShortcut without the overwrite of satisfied walkers by -1
UpdateShortcut_nosentinel(x, ns) ==
    ArgMax(AddNoise(MakeValues(arch, Clauses(arch), x), ns))

\* n_cores == 1: the global make values and count of walker assignment x,
\* wrapped in a single core dimension; the update of that walker under the
\* noise row ns
UpdateShortcut(x, ns) ==
    LET make_values == MakeValues(arch, Clauses(arch), x)
    IN  SelectUpdate(AddNoise(make_values, ns), ViolatedConstr(make_values))

\* n_cores > 1: the update core c proposes for walker assignment x from the
\* clause rows of its own partition, under the noise row ns
UpdateCore(cores, c, x, ns) ==
    LET make_values == MakeValues(arch, cores[c], x)
    IN  SelectUpdate(AddNoise(make_values, ns), ViolatedConstr(make_values))

\* Reduce indexing the walker axis by a constant instead of arange
Reduce_row0(upd, ridx) == [w \in Walkers |-> upd[ridx[w]][0]]

\* update = update.T; update[arange, random_indices]
Reduce(upd, ridx) == [w \in Walkers |-> upd[ridx[w]][w]]

-----------------------------------------------------------------------------
(* walksat_g: literal/clause form *)

\* LitInputs with the odd literals copied from the variables, not negated
LitInputs_copy(a, x) ==
    [l \in 0 .. (2 * a.nv - 1) |-> x[l \div 2]]

\* lit_inputs: literal 2k is variable k, literal 2k+1 is abs(variable k - 1)
LitInputs(a, x) ==
    [l \in 0 .. (2 * a.nv - 1) |->
        IF l % 2 = 0 THEN x[l \div 2] ELSE 1 - x[l \div 2]]

\* f_val = lit_inputs @ ramf
FVal(a, x) ==
    [c \in Clauses(a) |->
        SumOver([l \in 0 .. (2 * a.nv - 1) |-> LitInputs(a, x)[l] * RamfOf(a)[l][c]],
                0 .. (2 * a.nv - 1))]

\* a = s_val @ ramb with s_val = 1 where f_val == 0
AVal(a, x) ==
    [l \in 0 .. (2 * a.nv - 1) |->
        SumOver([c \in Clauses(a) |->
                    IF FVal(a, x)[c] = 0 THEN RambOf(a)[c][l] ELSE 0],
                Clauses(a))]

\* b = z_val @ ramb with z_val = 1 where f_val == 1
BVal(a, x) ==
    [l \in 0 .. (2 * a.nv - 1) |->
        SumOver([c \in Clauses(a) |->
                    IF FVal(a, x)[c] = 1 THEN RambOf(a)[c][l] ELSE 0],
                Clauses(a))]

\* the literal of variable k that is 0 (false) under x
ZeroLit(x, k) == IF x[k] = 0 THEN 2 * k ELSE 2 * k + 1

\* the literal of variable k that is 1 (true) under x
OneLit(x, k) == IF x[k] = 1 THEN 2 * k ELSE 2 * k + 1

\* mv_arr: a at the zero literals, reshaped to one entry per variable
MvArr(a, x) == [k \in Vars(a) |-> AVal(a, x)[ZeroLit(x, k)]]

\* bv_arr: b at the one literals, reshaped to one entry per variable
BvArr(a, x) == [k \in Vars(a) |-> BVal(a, x)[OneLit(x, k)]]

\* y = g_arr + noise * randn; y[mv_arr < 1] = -100
YRow(a, x, ns) ==
    [k \in Vars(a) |->
        IF MvArr(a, x)[k] < 1 THEN MaskG
        ELSE Scale * (MvArr(a, x)[k] - BvArr(a, x)[k]) + noise * ns[k]]

\* the update of walker assignment x in walksat_g under the noise row ns
UpdateG(x, ns) ==
    SelectUpdate(YRow(arch, x, ns), ViolatedConstr(MvArr(arch, x)))

-----------------------------------------------------------------------------
(* walksat_SKC, walksat_Gseq, walksat_SKCseq, walksat_B2seq: the selection   *)
(* policies over the literal/clause form.  The part of the loop body up to   *)
(* the early-stop check is that of walksat_g.                                *)

\* y[tmp5] = -1000, in hundredths
MaskSKC == -1000 * Scale

\* y[tmp5] = 1000 in walksat_B2seq, in hundredths
MaskB2 == 1000 * Scale

\* cp.argmin along the last axis: the first index holding the minimum
ArgMin(row) ==
    CHOOSE i \in DOMAIN row :
        /\ \A j \in DOMAIN row : row[j] >= row[i]
        /\ \A j \in DOMAIN row : j < i => row[j] > row[i]

\* tmp1 = mv_arr < 1
Tmp1(x) == [k \in Vars(arch) |-> MvArr(arch, x)[k] < 1]

\* tmp2 = bv_arr == 0
Tmp2(x) == [k \in Vars(arch) |-> BvArr(arch, x)[k] = 0]

\* tmp3 = tmp2.any(1), the line left commented out next to tmp3
Tmp3_anyzero(x) == \E k \in Vars(arch) : Tmp2(x)[k]

\* tmp3 = (~tmp1 & tmp2).any(1)
Tmp3(x) == \E k \in Vars(arch) : ~Tmp1(x)[k] /\ Tmp2(x)[k]

\* tmp5 = (tmp4 & (tmp1 | ~tmp2)) | (~tmp4 & tmp1), tmp4 being tmp3 repeated
\* along the variables
Tmp5(x) ==
    LET tmp3 == Tmp3(x)
    IN  [k \in Vars(arch) |->
            \/ tmp3 /\ (Tmp1(x)[k] \/ ~Tmp2(x)[k])
            \/ ~tmp3 /\ Tmp1(x)[k]]

\* walksat_SKC: y = g_arr + noise * randn; y[tmp5] = -1000
YRowSKC(x, ns) ==
    LET tmp5 == Tmp5(x)
    IN  [k \in Vars(arch) |->
            IF tmp5[k] THEN MaskSKC
            ELSE Scale * (MvArr(arch, x)[k] - BvArr(arch, x)[k]) + noise * ns[k]]

\* the update of walker assignment x in walksat_SKC under the noise row ns
UpdateSKC(x, ns) ==
    SelectUpdate(YRowSKC(x, ns), ViolatedConstr(MvArr(arch, x)))

\* SortDescending without the two negations around cp.sort
SortDescending_asc(row) ==
    CHOOSE srt \in [DOMAIN row -> {row[k] : k \in DOMAIN row}] :
        /\ \A i, j \in DOMAIN row : i < j => srt[i] <= srt[j]
        /\ \A val \in {row[k] : k \in DOMAIN row} :
              Cardinality({k \in DOMAIN row : srt[k] = val})
                = Cardinality({k \in DOMAIN row : row[k] = val})

\* -cp.sort(-row): the entries of the row in descending order
SortDescending(row) ==
    CHOOSE srt \in [DOMAIN row -> {row[k] : k \in DOMAIN row}] :
        /\ \A i, j \in DOMAIN row : i < j => srt[i] >= srt[j]
        /\ \A val \in {row[k] : k \in DOMAIN row} :
              Cardinality({k \in DOMAIN row : srt[k] = val})
                = Cardinality({k \in DOMAIN row : row[k] = val})

\* all_variable_indices with the masked positions set to -1, sorted
AllVariableIndicesSorted(masked) ==
    SortDescending([k \in DOMAIN masked |-> IF masked[k] THEN -1 ELSE k])

\* the values np.random.randint(0, violated_constr_temp) can draw, the count
\* cnt having been raised from 0 to 1
NumCandidateDraws(cnt) == 0 .. ((IF cnt = 0 THEN 1 ELSE cnt) - 1)

\* samples of cp.random.uniform(0, 1), in hundredths
Uniform01Samples == {0, 50, 99}

\* ind1 = cp.random.uniform(0, 1, max_runs) > noise, for the sample u
Ind1(u) == u > noise * Scale

\* walksat_Gseq: y = g_arr; y[mv_arr < 1] = -100
YRowGseq(x) ==
    [k \in Vars(arch) |->
        IF Tmp1(x)[k] THEN MaskG
        ELSE Scale * (MvArr(arch, x)[k] - BvArr(arch, x)[k])]

\* walksat_Gseq: update2, the random candidate at rank r
Update2Gseq(x, r) == AllVariableIndicesSorted(Tmp1(x))[r]

\* walksat_Gseq: the ranks that can be drawn for assignment x
RanksGseq(x) == NumCandidateDraws(ViolatedConstr(MvArr(arch, x)))

\* walksat_Gseq: update1 after update1[ind3] = update2[ind3]
UpdateGseq(x, r, u) ==
    LET update1 == SelectUpdate(YRowGseq(x), ViolatedConstr(MvArr(arch, x)))
        ind3 == Ind1(u) /\ ~(update1 = NoFlip)
    IN  IF ind3 THEN Update2Gseq(x, r) ELSE update1

\* walksat_SKCseq: y = g_arr; y[tmp5] = -1000
YRowSKCseq(x) ==
    LET tmp5 == Tmp5(x)
    IN  [k \in Vars(arch) |->
            IF tmp5[k] THEN MaskSKC
            ELSE Scale * (MvArr(arch, x)[k] - BvArr(arch, x)[k])]

\* walksat_SKCseq and walksat_B2seq: update2, the random candidate at rank r
Update2SKCseq(x, r) == AllVariableIndicesSorted(Tmp5(x))[r]

\* walksat_SKCseq and walksat_B2seq: the ranks that can be drawn, from
\* violated_constr_temp = cp.sum(tmp6, axis=1)
RanksSKCseq(x) ==
    NumCandidateDraws(Cardinality({k \in Vars(arch) : ~Tmp5(x)[k]}))

\* walksat_SKCseq: update1 after update1[ind3] = update2[ind3]
UpdateSKCseq(x, r, u) ==
    LET update1 == SelectUpdate(YRowSKCseq(x), ViolatedConstr(MvArr(arch, x)))
        ind3 == Ind1(u) /\ ~(update1 = NoFlip)
    IN  IF ind3 THEN Update2SKCseq(x, r) ELSE update1

\* walksat_B2seq: y = bv_arr; y[tmp5] = 1000
YRowB2seq(x) ==
    LET tmp5 == Tmp5(x)
    IN  [k \in Vars(arch) |->
            IF tmp5[k] THEN MaskB2
            ELSE Scale * BvArr(arch, x)[k]]

\* Ind3B2seq as in walksat_SKCseq, without the freebie term
Ind3B2seq_nofreebie(ind1, ind2, tmp3) == ind1 /\ ~ind2

\* walksat_B2seq: ind3 = ind1 & ~ind2 & ~tmp3
Ind3B2seq(ind1, ind2, tmp3) == ind1 /\ ~ind2 /\ ~tmp3

\* walksat_B2seq: update = argmin(y); sentinel; update1[ind3] = update2[ind3]
UpdateB2seq(x, r, u) ==
    LET update1 == IF ViolatedConstr(MvArr(arch, x)) = 0 THEN NoFlip
                   ELSE ArgMin(YRowB2seq(x))
        ind3 == Ind3B2seq(Ind1(u), update1 = NoFlip, Tmp3(x))
    IN  IF ind3 THEN Update2SKCseq(x, r) ELSE update1

-----------------------------------------------------------------------------
(* The run *)

\* LoopRange with walksat_m looping over range(max_flips - 1) as well
LoopRange_short == max_flips - 1

\* range(max_flips) in walksat_m, range(max_flips - 1) in walksat_g and in
\* the four literal-form policies
LoopRange == IF heuristic = "walksat_m" THEN max_flips ELSE max_flips - 1

\* the count recorded for one walker in this iteration
Count(x) ==
    IF heuristic = "walksat_m"
    THEN ViolatedConstr(MakeValues(arch, Clauses(arch), x))
    ELSE ViolatedConstr(MvArr(arch, x))

\* the partitions of the clause rows into n cores, cores possibly empty.
\* Cores are numbered in the order of their first clause row: the reduction
\* draws the core index uniformly, so renumbering the cores changes nothing.
Partitions(a, n) ==
    { [c \in 0 .. (n - 1) |-> {r \in Clauses(a) : core_of[r] = c}] :
        core_of \in { f \in [Clauses(a) -> 0 .. (n - 1)] :
                        \A r \in Clauses(a) :
                           f[r] = 0 \/ \E q \in 1 .. (r - 1) : f[q] = f[r] - 1 } }

\* noise 0 adds nothing under any of the three distributions, so it is
\* paired with "normal" only
NoiseConfigs ==
    { <<0, "normal">>, <<1, "normal">>, <<1, "uniform">>, <<1, "intrinsic">>,
      <<1, "other">> }

Init ==
    /\ heuristic \in {"walksat_m", "walksat_g"}
    /\ arch \in Instances
    /\ max_runs \in RunCounts
    /\ max_flips \in 1 .. MaxFlips
    /\ n_cores \in 1 .. MaxCores
    /\ IF heuristic = "walksat_m"
       THEN /\ \E nc \in NoiseConfigs : noise = nc[1] /\ noise_dist = nc[2]
            /\ tcam_cores \in Partitions(arch, n_cores)
       ELSE /\ noise \in {0, 1}
            /\ noise_dist = "normal"
            /\ tcam_cores = [c \in {0} |-> Clauses(arch)]
    /\ inputs \in [Walkers -> [Vars(arch) -> {0, 1}]]
    /\ inputs0 = inputs
    /\ violated_constr_mat = [w \in Walkers |-> [i \in 0 .. (max_flips - 1) |-> NaN]]
    /\ n_iters = 0
    /\ pc = "loop"
    /\ update = [w \in Walkers |-> NoFlip]
    /\ early_stop = FALSE
    /\ config_heuristic = Absent

params == <<heuristic, arch, tcam_cores, max_runs, max_flips, n_cores, noise,
            noise_dist, inputs0, config_heuristic>>

\* Record with the counter incremented after the early-stop check
Record_late_increment ==
    /\ pc = "loop"
    /\ n_iters < LoopRange
    /\ violated_constr_mat' =
           [w \in Walkers |->
               [violated_constr_mat[w] EXCEPT ![n_iters] = Count(inputs[w])]]
    /\ IF \A w \in Walkers : Count(inputs[w]) = 0
       THEN pc' = "return" /\ early_stop' = TRUE /\ n_iters' = n_iters
       ELSE pc' = "select" /\ early_stop' = early_stop /\ n_iters' = n_iters + 1
    /\ UNCHANGED <<params, inputs, update>>

\* n_iters += 1; record the column; early-stop check
Record ==
    /\ pc = "loop"
    /\ n_iters < LoopRange
    /\ n_iters' = n_iters + 1
    /\ violated_constr_mat' =
           [w \in Walkers |->
               [violated_constr_mat[w] EXCEPT ![n_iters] = Count(inputs[w])]]
    /\ IF \A w \in Walkers : Count(inputs[w]) = 0
       THEN pc' = "return" /\ early_stop' = TRUE
       ELSE pc' = "select" /\ early_stop' = early_stop
    /\ UNCHANGED <<params, inputs, update>>

\* the loop range is used up
Exhaust ==
    /\ pc = "loop"
    /\ n_iters >= LoopRange
    /\ pc' = "return"
    /\ UNCHANGED <<params, inputs, violated_constr_mat, n_iters, update,
                   early_stop>>

\* raise ValueError(f"Unknown noise distribution: ...")
RaiseUnknownNoise ==
    /\ pc = "select"
    /\ heuristic = "walksat_m"
    /\ noise_dist \notin NoiseDists
    /\ pc' = "raise"
    /\ UNCHANGED <<params, inputs, violated_constr_mat, n_iters, update,
                   early_stop>>

\* SelectM with the sentinel written into the core patterns as well: a core
\* that sees no violated constraint for some walker loses its rows
SelectM_overwrites_cores ==
    /\ pc = "select"
    /\ heuristic = "walksat_m"
    /\ noise_dist \in NoiseDists
    /\ LET cores == IF n_cores = 1 THEN {0} ELSE DOMAIN tcam_cores
           poss == [k \in cores \X Walkers |->
                       IF n_cores = 1
                       THEN { UpdateShortcut(inputs[k[2]], ns) : ns \in NoiseRows }
                       ELSE { UpdateCore(tcam_cores, k[1], inputs[k[2]], ns) :
                                ns \in NoiseRows }]
       IN  \E f \in ChoiceFns(poss) :
             \E random_indices \in [Walkers -> cores] :
               LET update_cores == [c \in cores |->
                                       [w \in Walkers |-> f[<<c, w>>]]]
               IN  update' = IF n_cores = 1 THEN update_cores[0]
                             ELSE Reduce(update_cores, random_indices)
    /\ tcam_cores' =
          [c \in DOMAIN tcam_cores |->
              IF \E w \in Walkers :
                    ViolatedConstr(MakeValues(arch, tcam_cores[c], inputs[w])) = 0
              THEN {} ELSE tcam_cores[c]]
    /\ inputs' = [w \in Walkers |-> flip_indices(inputs[w], update'[w])]
    /\ pc' = "loop"
    /\ UNCHANGED <<heuristic, arch, max_runs, max_flips, n_cores, noise,
                   noise_dist, inputs0, config_heuristic, violated_constr_mat,
                   n_iters, early_stop>>

\* walksat_m after the early-stop check: noise, argmax, reduction, flip.
\* The noise samples of different (core, walker) rows are independent, so the
\* reachable update arrays are the product of the per-row proposal sets.
SelectM ==
    /\ pc = "select"
    /\ heuristic = "walksat_m"
    /\ noise_dist \in NoiseDists
    /\ LET cores == IF n_cores = 1 THEN {0} ELSE DOMAIN tcam_cores
           poss == [k \in cores \X Walkers |->
                       IF n_cores = 1
                       THEN { UpdateShortcut(inputs[k[2]], ns) : ns \in NoiseRows }
                       ELSE { UpdateCore(tcam_cores, k[1], inputs[k[2]], ns) :
                                ns \in NoiseRows }]
       IN  \E f \in ChoiceFns(poss) :
             \E random_indices \in [Walkers -> cores] :
               LET update_cores == [c \in cores |->
                                       [w \in Walkers |-> f[<<c, w>>]]]
               IN  update' = IF n_cores = 1 THEN update_cores[0]
                             ELSE Reduce(update_cores, random_indices)
    /\ inputs' = [w \in Walkers |-> flip_indices(inputs[w], update'[w])]
    /\ pc' = "loop"
    /\ UNCHANGED <<params, violated_constr_mat, n_iters, early_stop>>

\* walksat_g after the early-stop check: noise, mask, argmax, reduction, flip
SelectG ==
    /\ pc = "select"
    /\ heuristic = "walksat_g"
    /\ LET poss == [k \in {0} \X Walkers |->
                       { UpdateG(inputs[k[2]], ns) :
                           ns \in [Vars(arch) -> RandnSamples] }]
       IN  \E f \in ChoiceFns(poss) :
             \E random_indices \in [Walkers -> {0}] :
               LET update_cores == [c \in {0} |-> [w \in Walkers |-> f[<<c, w>>]]]
               IN  update' = IF n_cores = 1 THEN update_cores[0]
                             ELSE Reduce(update_cores, random_indices)
    /\ inputs' = [w \in Walkers |-> flip_indices(inputs[w], update'[w])]
    /\ pc' = "loop"
    /\ UNCHANGED <<params, violated_constr_mat, n_iters, early_stop>>

Next == Record \/ Exhaust \/ RaiseUnknownNoise \/ SelectM \/ SelectG

Spec == Init /\ [][Next]_vars

-----------------------------------------------------------------------------
(* Runs of walksat_SKC, walksat_Gseq, walksat_SKCseq and walksat_B2seq *)

\* a noise parameter of 600: a sample of two standard deviations moves a gain
\* by 1200, past the mask value 1000
BigNoise == 6 * Scale

LitInstances ==
    Instances \cup
    { [nv |-> 2, cl |-> << {0, 2}, {1, 2} >>],
      [nv |-> 2, cl |-> << {2}, {3} >>],
      [nv |-> 3, cl |-> << {0, 4}, {3} >> ] }

LitHeuristics ==
    {"walksat_SKC", "walksat_Gseq", "walksat_SKCseq", "walksat_B2seq"}

\* The four read n_cores only to choose between `update = update1` and the
\* reduction, so it is 1 or the largest count; the three-variable instance
\* is run with one walker.
InitLit ==
    /\ heuristic \in LitHeuristics
    /\ arch \in LitInstances
    /\ max_runs \in IF arch.nv > 2 THEN {1} ELSE RunCounts
    /\ max_flips \in 1 .. MaxFlips
    /\ n_cores \in {1, MaxCores}
    /\ noise \in IF heuristic = "walksat_SKC" THEN {0, 1, BigNoise} ELSE {0, 1}
    /\ noise_dist = "normal"
    /\ tcam_cores = [c \in {0} |-> Clauses(arch)]
    /\ inputs \in [Walkers -> [Vars(arch) -> {0, 1}]]
    /\ inputs0 = inputs
    /\ violated_constr_mat = [w \in Walkers |-> [i \in 0 .. (max_flips - 1) |-> NaN]]
    /\ n_iters = 0
    /\ pc = "loop"
    /\ update = [w \in Walkers |-> NoFlip]
    /\ early_stop = FALSE
    /\ config_heuristic = Absent

\* the end of the loop body shared by the four: the update array has a single
\* core row, so for n_cores > 1 the reduction draws index 0 for every walker;
\* then the flip.  poss[<<0, w>>] is the set of updates walker w can get.
FlipLit(poss) ==
    /\ \E f \in ChoiceFns(poss) :
          \E random_indices \in [Walkers -> {0}] :
            LET update_cores == [c \in {0} |-> [w \in Walkers |-> f[<<c, w>>]]]
            IN  update' = IF n_cores = 1 THEN update_cores[0]
                          ELSE Reduce(update_cores, random_indices)
    /\ inputs' = [w \in Walkers |-> flip_indices(inputs[w], update'[w])]
    /\ pc' = "loop"
    /\ UNCHANGED <<params, violated_constr_mat, n_iters, early_stop>>

\* walksat_SKC after the early-stop check
SelectSKC ==
    /\ pc = "select"
    /\ heuristic = "walksat_SKC"
    /\ FlipLit([k \in {0} \X Walkers |->
                  { UpdateSKC(inputs[k[2]], ns) :
                      ns \in [Vars(arch) -> RandnSamples] }])

\* walksat_Gseq after the early-stop check
SelectGseq ==
    /\ pc = "select"
    /\ heuristic = "walksat_Gseq"
    /\ FlipLit([k \in {0} \X Walkers |->
                  { UpdateGseq(inputs[k[2]], r, u) :
                      r \in RanksGseq(inputs[k[2]]), u \in Uniform01Samples }])

\* walksat_SKCseq after the early-stop check
SelectSKCseq ==
    /\ pc = "select"
    /\ heuristic = "walksat_SKCseq"
    /\ FlipLit([k \in {0} \X Walkers |->
                  { UpdateSKCseq(inputs[k[2]], r, u) :
                      r \in RanksSKCseq(inputs[k[2]]), u \in Uniform01Samples }])

\* walksat_B2seq after the early-stop check
SelectB2seq ==
    /\ pc = "select"
    /\ heuristic = "walksat_B2seq"
    /\ FlipLit([k \in {0} \X Walkers |->
                  { UpdateB2seq(inputs[k[2]], r, u) :
                      r \in RanksSKCseq(inputs[k[2]]), u \in Uniform01Samples }])

NextLit ==
    Record \/ Exhaust \/ SelectSKC \/ SelectGseq \/ SelectSKCseq \/ SelectB2seq

SpecLit == InitLit /\ [][NextLit]_vars

-----------------------------------------------------------------------------
(* solve, lines 74-99: the choice of the heuristic and the call.  InitSolve  *)
(* is the state at line 74: the environment check has passed, the encoding   *)
(* is compiled, the batch and the trajectory matrix are allocated.           *)

\* the keys of heuristics_dict and the function each one maps to
heuristics_dict == [name \in {"walksat-m"} |-> "walksat_m"]

\* the second argument of config.get("heuristic", 'walksat_m')
DefaultHeuristic == "walksat_m"

\* the values of config["heuristic"] explored
ConfigHeuristics == {Absent, "walksat-m", "walksat_m", "walksat_g", "walksat-x"}

\* heuristic_name = config.get("heuristic", 'walksat_m')
heuristic_name ==
    IF config_heuristic = Absent THEN DefaultHeuristic ELSE config_heuristic

InitSolve ==
    /\ config_heuristic \in ConfigHeuristics
    /\ heuristic = "<none>"
    /\ arch \in Instances
    /\ max_runs \in RunCounts
    /\ max_flips \in 1 .. MaxFlips
    /\ n_cores \in 1 .. MaxCores
    /\ \E nc \in NoiseConfigs : noise = nc[1] /\ noise_dist = nc[2]
    /\ tcam_cores \in Partitions(arch, n_cores)
    /\ inputs \in [Walkers -> [Vars(arch) -> {0, 1}]]
    /\ inputs0 = inputs
    /\ violated_constr_mat = [w \in Walkers |-> [i \in 0 .. (max_flips - 1) |-> NaN]]
    /\ n_iters = 0
    /\ pc = "solve"
    /\ update = [w \in Walkers |-> NoFlip]
    /\ early_stop = FALSE

\* lines 75-84: look the name up; raise ValueError("Unknown heuristic: ...")
\* when the table has no such key
SolveLookup ==
    /\ pc = "solve"
    /\ IF heuristic_name \in DOMAIN heuristics_dict
       THEN /\ heuristic' = heuristics_dict[heuristic_name]
            /\ pc' = "call"
       ELSE /\ heuristic' = heuristic
            /\ pc' = "raise_unknown_heuristic"
    /\ UNCHANGED <<arch, tcam_cores, max_runs, max_flips, n_cores, noise,
                   noise_dist, inputs, violated_constr_mat, n_iters, inputs0,
                   update, early_stop, config_heuristic>>

\* line 99: heuristic_function(data) passes one argument; walksat_m
\* (heuristics.py line 28) has three required parameters, so the call raises
\* TypeError before the body of walksat_m runs
SolveCall ==
    /\ pc = "call"
    /\ heuristic = "walksat_m"
    /\ pc' = "raise_type_error"
    /\ UNCHANGED <<params, inputs, violated_constr_mat, n_iters, update,
                   early_stop>>

NextSolve == SolveLookup \/ SolveCall

SpecSolve == InitSolve /\ [][NextSolve]_vars

-----------------------------------------------------------------------------
(* solve, lines 103-109: what it computes from the pair (violated_constr_mat, *)
(* n_iters) a heuristic hands back.  Probabilities are kept as numerators     *)
(* over max_runs.                                                             *)

\* the column indices the slice [:, 1 : n + 1] selects from a matrix with
\* max_flips columns: a slice is cut at the width of the matrix
SliceColumns(n) == {j \in 1 .. n : j <= max_flips - 1}

\* p_vs_t = cp.sum(violated_constr_mat[:, 1 : n_iters + 1] == 0, axis=0) / max_runs;
\* entry k (from 1) is taken from column k, and nan == 0 is false
p_vs_t(mat, n) ==
    [k \in 1 .. Cardinality(SliceColumns(n)) |->
        Cardinality({w \in Walkers : mat[w][k] = 0})]

\* solved = (np.sum(p_vs_t) > 0)
solved(mat, n) == SumOver(p_vs_t(mat, n), DOMAIN p_vs_t(mat, n)) > 0

\* iteration_vector = np.arange(1, n_iters + 1)
iteration_vector(n) == [k \in 1 .. n |-> k]

-----------------------------------------------------------------------------
(* The scenario of the 2-variable, 2-constraint instance: walksat_m on       *)
(* (x0 or x1) and (not x0 or not x1), noise 0, one core.                     *)

\* walker count of the scenario
ScenarioRuns == 10

\* iteration budget of the scenario
ScenarioFlips == 5

\* (x0 or x1) and (not x0 or not x1)
Xor == [nv |-> 2, cl |-> << {0, 2}, {1, 3} >>]

\* the assignment over two variables with binary code k (variable 0 lowest)
Decode(k) == [v \in 0 .. 1 |-> (k \div (2 ^ v)) % 2]

\* The rows of the batch are drawn independently and the loop treats every
\* row alike, so the initial batches are taken up to the order of their rows:
\* rows with code 0 first, then code 1, 2 and 3.
InitScenario ==
    /\ heuristic = "walksat_m"
    /\ arch = Xor
    /\ max_runs \in 1 .. ScenarioRuns
    /\ max_flips \in 1 .. ScenarioFlips
    /\ n_cores = 1
    /\ noise = 0
    /\ noise_dist = "normal"
    /\ tcam_cores = [c \in {0} |-> Clauses(arch)]
    /\ \E c1, c2, c3 \in 0 .. max_runs :
          /\ c1 <= c2 /\ c2 <= c3
          /\ inputs = [w \in Walkers |->
                          Decode(IF w < c1 THEN 0 ELSE IF w < c2 THEN 1
                                 ELSE IF w < c3 THEN 2 ELSE 3)]
    /\ inputs0 = inputs
    /\ violated_constr_mat = [w \in Walkers |-> [i \in 0 .. (max_flips - 1) |-> NaN]]
    /\ n_iters = 0
    /\ pc = "loop"
    /\ update = [w \in Walkers |-> NoFlip]
    /\ early_stop = FALSE
    /\ config_heuristic = Absent

NextScenario == Record \/ Exhaust \/ SelectM

SpecScenario == InitScenario /\ [][NextScenario]_vars

-----------------------------------------------------------------------------
(* Vocabulary of the properties *)

\* number of coordinates in which two assignments differ
DiffCount(x, y) == Cardinality({v \in DOMAIN x : x[v] # y[v]})

\* a step of walksat_m from the early-stop check to the flip
SelectStepM == pc = "select" /\ heuristic = "walksat_m" /\ pc' = "loop"

\* the state right after a flip step: update holds that step's updates
AfterSelect == pc = "loop" /\ n_iters >= 1

\* walker w's assignment before the last flip step (a flip is its own inverse)
PrevInput(w) == flip_indices(inputs[w], update[w])

\* walker w has a 0 in some finalized column
HasZero(w) == \E i \in 0 .. (n_iters - 1) : violated_constr_mat[w][i] = 0

\* column i of the trajectory matrix is all zero
ZeroColumn(i) == \A w \in Walkers : violated_constr_mat[w][i] = 0

-----------------------------------------------------------------------------
(* C1 *)

\* C1 as stated: in walksat_m, for every core count, every iteration that
\* proceeds past the early-stop check flips exactly one variable of each
\* walker whose recorded count is non-zero and none of each walker whose
\* recorded count is zero.
C1_ExactlyOneFlipAnyCores ==
    [][SelectStepM =>
         \A w \in Walkers :
            DiffCount(inputs[w], inputs'[w]) =
               IF violated_constr_mat[w][n_iters - 1] # 0 THEN 1 ELSE 0]_vars

\* C1 amended: in walksat_m, every iteration that proceeds past the
\* early-stop check flips no variable of a walker whose recorded count is
\* zero; of a walker whose recorded count is non-zero it flips exactly one
\* variable when the core count is 1, and at most one when the core count is
\* greater than 1 (none exactly when the update drawn for it is the no-op
\* sentinel of a core that sees no violated constraint in its partition).
C1_FlipPerWalker ==
    [][SelectStepM =>
         \A w \in Walkers :
            /\ violated_constr_mat[w][n_iters - 1] = 0
                 => DiffCount(inputs[w], inputs'[w]) = 0
            /\ (violated_constr_mat[w][n_iters - 1] # 0 /\ n_cores = 1)
                 => DiffCount(inputs[w], inputs'[w]) = 1
            /\ (violated_constr_mat[w][n_iters - 1] # 0 /\ n_cores > 1)
                 => /\ DiffCount(inputs[w], inputs'[w]) <= 1
                    /\ DiffCount(inputs[w], inputs'[w]) = 0 <=> update'[w] = NoFlip
                    /\ update'[w] = NoFlip =>
                         \E c \in DOMAIN tcam_cores :
                            ViolatedConstr(MakeValues(arch, tcam_cores[c], inputs[w])) = 0]_vars

\* C1 witness: after a multi-core flip step of walksat_m, one walker with a
\* non-zero count was flipped, one with a non-zero count was left alone and
\* the run goes on
C1_Witness ==
    /\ heuristic = "walksat_m"
    /\ AfterSelect
    /\ n_cores > 1
    /\ \E w1, w2 \in Walkers :
          /\ violated_constr_mat[w1][n_iters - 1] # 0
          /\ update[w1] # NoFlip
          /\ violated_constr_mat[w2][n_iters - 1] # 0
          /\ update[w2] = NoFlip

-----------------------------------------------------------------------------
(* C2 *)

\* C2: in walksat_m and walksat_g, once a walker has a 0 in a finalized
\* trajectory cell, no later step changes its assignment and every cell
\* finalized for it later is 0.
C2_StaysSatisfied ==
    [][\A w \in Walkers :
          HasZero(w) =>
             /\ inputs'[w] = inputs[w]
             /\ \A j \in 0 .. (n_iters' - 1) :
                   j >= n_iters => violated_constr_mat'[w][j] = 0]_vars

\* C2 witness: a walksat_g run in which one walker was satisfied in the first
\* column, another one was not and was flipped, and the satisfied walker's
\* next column is finalized
C2_Witness ==
    /\ heuristic = "walksat_g"
    /\ n_iters >= 2
    /\ \E w1, w2 \in Walkers :
          /\ violated_constr_mat[w1][0] = 0
          /\ violated_constr_mat[w1][1] = 0
          /\ inputs[w1] = inputs0[w1]
          /\ violated_constr_mat[w2][0] > 0
          /\ inputs[w2] # inputs0[w2]

-----------------------------------------------------------------------------
(* C3 *)

\* walksat_m has returned
ReturnedM == pc = "return" /\ heuristic = "walksat_m"

\* C3 as stated: the n_iters walksat_m returns is at most max_flips, and it
\* equals max_flips if and only if the early stop never triggered, the last
\* permitted iteration included.
C3_FullBudgetIffNoEarlyStop ==
    ReturnedM =>
       /\ n_iters <= max_flips
       /\ n_iters = max_flips <=> ~early_stop

\* C3 amended: the n_iters walksat_m returns is at most max_flips, and it
\* equals max_flips if and only if the early stop did not trigger in any
\* iteration before the last permitted one (no column with index below
\* max_flips - 1 is all zero); an early stop in the last permitted iteration
\* also returns n_iters == max_flips.
C3_FullBudgetIffNoEarlierStop ==
    ReturnedM =>
       /\ n_iters <= max_flips
       /\ n_iters = max_flips <=> \A i \in 0 .. (max_flips - 2) : ~ZeroColumn(i)
       /\ ~early_stop => n_iters = max_flips

\* C3 witness: walksat_m returned by an early stop in the last permitted
\* iteration of a budget of more than one iteration
C3_Witness ==
    /\ ReturnedM
    /\ early_stop
    /\ max_flips > 1
    /\ n_iters = max_flips
    /\ ZeroColumn(max_flips - 1)

-----------------------------------------------------------------------------
(* C4 *)

\* the instance with the contradictory unit clauses x0 and (not x0)
Contradiction == [nv |-> 1, cl |-> << {0}, {1} >>]

\* C4: on the contradictory instance walksat_g returns n_iters == max_flips,
\* no trajectory cell is 0 and the loop never ends by early stop.
C4_UnsatRunsFullBudgetG ==
    (heuristic = "walksat_g" /\ arch = Contradiction) =>
       /\ ~early_stop
       /\ \A w \in Walkers : ~HasZero(w)
       /\ pc = "return" => n_iters = max_flips

-----------------------------------------------------------------------------
(* C5 *)

\* every walker's initial assignment violates no constraint
SatisfiedStart == \A w \in Walkers : Count(inputs0[w]) = 0

\* C5: from initial assignments that violate no constraint, walksat_m and
\* walksat_g return n_iters == 1 with column 0 all zero and the assignment
\* batch as it was initially, for every max_flips >= 1.
C5_SatisfiedStartStopsAtOne ==
    (pc = "return" /\ SatisfiedStart) =>
       /\ n_iters = 1
       /\ ZeroColumn(0)
       /\ inputs = inputs0

-----------------------------------------------------------------------------
(* C6 *)

\* C6: with a noise distribution name other than the three known ones,
\* walksat_m fails before any iteration runs: it never returns normally, the
\* iteration counter stays 0 and no trajectory cell is written.
C6_UnknownNoiseFailsBeforeLoop ==
    (heuristic = "walksat_m" /\ noise_dist \notin NoiseDists) =>
       /\ pc # "return"
       /\ n_iters = 0
       /\ \A w \in Walkers : \A i \in 0 .. (max_flips - 1) :
             violated_constr_mat[w][i] = NaN

-----------------------------------------------------------------------------
(* C7 *)

\* the update array of the multi-core branch of walksat_m when it is run with
\* the single core `cores`, every walker under the noise row ns: per-core
\* proposals, then the reduction with the only index randint(0, 1) can draw
GeneralBranchOneCore(cores, ns) ==
    Reduce([c \in {0} |->
               [w \in Walkers |-> UpdateCore(cores, 0, inputs[w], ns)]],
           [w \in Walkers |-> 0])

\* C7: with one core, (a) under every noise row the single-core shortcut of
\* walksat_m yields, for every walker, the update the multi-core branch
\* yields when run with one core holding the whole constraint set, and (b)
\* the variable flipped for each unsatisfied walker is the argmax of its
\* noise-perturbed global score row.
C7_SingleCoreReductionNoOp ==
    [][(SelectStepM /\ n_cores = 1) =>
         /\ \A ns \in NoiseRows : \A w \in Walkers :
               UpdateShortcut(inputs[w], ns)
                 = GeneralBranchOneCore([c \in {0} |-> Clauses(arch)], ns)[w]
         /\ \A w \in Walkers :
               violated_constr_mat[w][n_iters - 1] # 0 =>
                  /\ \E ns \in NoiseRows :
                        update'[w] =
                           ArgMax(AddNoise(MakeValues(arch, Clauses(arch), inputs[w]), ns))
                  /\ inputs'[w] = flip_indices(inputs[w], update'[w])
                  /\ inputs'[w][update'[w]] # inputs[w][update'[w]]]_vars

\* C7 witness: after a single-core flip step of walksat_m with two walkers,
\* one walker was flipped at a variable that is not the noise-free best one
\* and the other was satisfied and left alone
C7_Witness ==
    /\ heuristic = "walksat_m"
    /\ n_cores = 1
    /\ AfterSelect
    /\ \E w1, w2 \in Walkers :
          /\ update[w1] # NoFlip
          /\ update[w1] # ArgMax(MakeValues(arch, Clauses(arch), PrevInput(w1)))
          /\ update[w2] = NoFlip

-----------------------------------------------------------------------------
(* C8 *)

\* the cores whose proposal for assignment x can be the update u
ProposingCores(x, u) ==
    {c \in DOMAIN tcam_cores :
        \E ns \in NoiseRows : u = UpdateCore(tcam_cores, c, x, ns)}

\* C8: with more than one core, the update walksat_m applies to walker w is
\* a proposal some core computed for that walker from its own partition, and
\* it is what is flipped; the recorded column and the early-stop test come
\* from the global, unpartitioned match.
C8_OneCoreProposalPerWalker ==
    [][(heuristic = "walksat_m" /\ n_cores > 1) =>
         /\ (pc = "select" /\ pc' = "loop") =>
               \A w \in Walkers :
                  /\ ProposingCores(inputs[w], update'[w]) # {}
                  /\ inputs'[w] = flip_indices(inputs[w], update'[w])
         /\ (pc = "loop" /\ n_iters' = n_iters + 1) =>
               /\ \A w \in Walkers :
                     violated_constr_mat'[w][n_iters] =
                        ViolatedConstr(MakeValues(arch, Clauses(arch), inputs[w]))
               /\ pc' = "return" <=>
                     \A w \in Walkers :
                        ViolatedConstr(MakeValues(arch, Clauses(arch), inputs[w])) = 0]_vars

\* C8 witness: after a multi-core flip step of walksat_m, two walkers hold
\* updates that no single core can have proposed for both of them: the core
\* index was drawn per walker
C8_Witness ==
    /\ heuristic = "walksat_m"
    /\ n_cores > 1
    /\ AfterSelect
    /\ \E w1, w2 \in Walkers :
          /\ update[w1] # NoFlip
          /\ update[w2] # NoFlip
          /\ ProposingCores(PrevInput(w1), update[w1]) # {}
          /\ ProposingCores(PrevInput(w2), update[w2]) # {}
          /\ ProposingCores(PrevInput(w1), update[w1])
               \cap ProposingCores(PrevInput(w2), update[w2]) = {}

-----------------------------------------------------------------------------
(* C9 *)

\* every finalized cell is a count in 0 .. V, every other cell is NaN
TrajectoryShape ==
    \A w \in Walkers : \A i \in 0 .. (max_flips - 1) :
       IF i < n_iters
       THEN violated_constr_mat[w][i] \in 0 .. arch.nv
       ELSE violated_constr_mat[w][i] = NaN

\* a step leaves every finalized column as it is
ColumnsKept ==
    \A w \in Walkers : \A i \in 0 .. (n_iters - 1) :
       violated_constr_mat'[w][i] = violated_constr_mat[w][i]

-----------------------------------------------------------------------------
(* C10 *)

\* noise parameter 0, normal distribution, one core, walksat_m
NoiseOff ==
    /\ heuristic = "walksat_m"
    /\ noise = 0
    /\ noise_dist = "normal"
    /\ n_cores = 1

\* the noise-free choice for assignment x: the first variable with the
\* largest make value, or no flip when no make value is positive
Greedy(x) ==
    LET mv == MakeValues(arch, Clauses(arch), x)
    IN  IF \A v \in Vars(arch) : mv[v] <= 0 THEN NoFlip
        ELSE CHOOSE v \in Vars(arch) :
                /\ \A u \in Vars(arch) : mv[u] <= mv[v]
                /\ \A u \in Vars(arch) : mv[u] = mv[v] => v <= u

\* C10: with noise 0, the normal distribution and one core, every step of
\* walksat_m is a function of the state before it (the flip step applies the
\* first-index greedy choice to every walker, the record step writes the
\* counts of the current assignments), so two runs from the same initial
\* assignment batch have the same trajectory, n_iters and final assignments.
C10_NoiseOffDeterministic ==
    [][NoiseOff =>
         /\ pc = "select" =>
               /\ update' = [w \in Walkers |-> Greedy(inputs[w])]
               /\ inputs' = [w \in Walkers |-> flip_indices(inputs[w], Greedy(inputs[w]))]
               /\ pc' = "loop"
               /\ UNCHANGED <<violated_constr_mat, n_iters, early_stop>>
         /\ pc = "loop" =>
               /\ inputs' = inputs
               /\ n_iters' = IF n_iters < max_flips THEN n_iters + 1 ELSE n_iters
               /\ violated_constr_mat' =
                     IF n_iters < max_flips
                     THEN [w \in Walkers |->
                             [violated_constr_mat[w] EXCEPT
                                ![n_iters] = Cardinality({v \in Vars(arch) :
                                    MakeValues(arch, Clauses(arch), inputs[w])[v] > 0})]]
                     ELSE violated_constr_mat
               /\ pc' = IF /\ n_iters < max_flips
                           /\ \E w \in Walkers : Greedy(inputs[w]) # NoFlip
                        THEN "select" ELSE "return"]_vars

\* C10 witness: a noise-off run flipped a walker whose score row had a tie
\* for the maximum, and went on to finalize the next column
C10_Witness ==
    /\ NoiseOff
    /\ n_iters >= 2
    /\ \E w \in Walkers :
          /\ update[w] # NoFlip
          /\ LET mv == MakeValues(arch, Clauses(arch), PrevInput(w))
             IN  \E v \in Vars(arch) : v # update[w] /\ mv[v] = mv[update[w]]

-----------------------------------------------------------------------------
(* C11 *)

\* C11: on (x0 or x1) and (not x0 or not x1) with ScenarioRuns walkers, budget
\* ScenarioFlips, noise 0 and one core, every run of walksat_m, from every
\* initial batch, has at least one walker with a 0 in a finalized trajectory
\* cell once it has returned, and already once two columns are finalized.
C11_ScenarioReachesZero ==
    (max_runs = ScenarioRuns /\ max_flips = ScenarioFlips) =>
       /\ n_iters <= max_flips
       /\ (pc = "return" \/ n_iters >= 2) => \E w \in Walkers : HasZero(w)

\* C11 witness: a scenario run in which no walker started satisfied has
\* returned with every walker satisfied after one flip
C11_Witness ==
    /\ max_runs = ScenarioRuns
    /\ max_flips = ScenarioFlips
    /\ pc = "return"
    /\ \A w \in Walkers : violated_constr_mat[w][0] > 0
    /\ \A w \in Walkers : inputs[w] # inputs0[w]
    /\ ZeroColumn(1)

-----------------------------------------------------------------------------
(* C12 *)

\* assignment x triggers no constraint: no pattern row matches it
NoTrigger(x) == \A c \in Clauses(arch) : ~tcam_match(x, TcamOf(arch)[c])

\* a finalized all-zero column it ended the run in iteration it
StoppedAt(it) ==
    /\ pc = "return"
    /\ early_stop
    /\ n_iters = it + 1
    /\ \A i \in 0 .. (it - 1) : ~ZeroColumn(i)
    /\ \A w \in Walkers : \A i \in (it + 1) .. (max_flips - 1) :
          violated_constr_mat[w][i] = NaN
    /\ \A w \in Walkers : NoTrigger(inputs[w])

\* the iteration that records an all-zero column returns at once, with the
\* assignments and the update array as they were
StopStep ==
    (pc = "loop" /\ n_iters' = n_iters + 1) =>
       /\ pc' = "return" <=> \A w \in Walkers : violated_constr_mat'[w][n_iters] = 0
       /\ pc' = "return" => inputs' = inputs /\ update' = update

\* C12: walksat_m stops at the first iteration index it whose recorded column
\* is all zero: then n_iters == it + 1, the run has returned without a flip
\* in that iteration, no column after it is written, and every returned
\* assignment triggers no constraint.
C12_StopsAtFirstZeroColumn ==
    /\ [](heuristic = "walksat_m" =>
            \A it \in 0 .. (max_flips - 1) : ZeroColumn(it) => StoppedAt(it))
    /\ [][heuristic = "walksat_m" => StopStep]_vars

\* C12 witness: walksat_m returned by an early stop in its second iteration
\* or later, after flipping a walker, with budget left
C12_Witness ==
    /\ ReturnedM
    /\ early_stop
    /\ n_iters >= 2
    /\ n_iters < max_flips
    /\ ZeroColumn(n_iters - 1)
    /\ \E w \in Walkers : inputs[w] # inputs0[w]

-----------------------------------------------------------------------------
(* C13 *)

\* C13: on return from walksat_m, by early stop or with the budget used up,
\* the last finalized column (index n_iters - 1) holds, for every walker, the
\* unsatisfied count of the assignment that is returned for it.
C13_LastColumnDescribesReturn ==
    (ReturnedM /\ n_iters >= 1) =>
       \A w \in Walkers :
          violated_constr_mat[w][n_iters - 1] = Count(inputs[w])

-----------------------------------------------------------------------------
(* C14 *)

\* C14: for the pair walksat_m returns, solve computes p_vs_t from finalized
\* columns only (indices 0 .. n_iters - 1), p_vs_t has exactly n_iters
\* entries, one per entry of the iteration vector 1 .. n_iters, and solved is
\* true whenever some walker has a 0 in a finalized column, column 0 included.
C14_PvsTFromFinalizedColumns ==
    ReturnedM =>
       /\ SliceColumns(n_iters) \subseteq 0 .. (n_iters - 1)
       /\ DOMAIN p_vs_t(violated_constr_mat, n_iters)
             = DOMAIN iteration_vector(n_iters)
       /\ (\E w \in Walkers : HasZero(w))
             => solved(violated_constr_mat, n_iters)

-----------------------------------------------------------------------------
(* Vocabulary of the freebie claims *)

\* the variables of make >= 1 under x
MakeCandidates(x) == {k \in Vars(arch) : MvArr(arch, x)[k] >= 1}

\* the freebie variables under x: make >= 1 and break == 0
Freebies(x) == {k \in MakeCandidates(x) : BvArr(arch, x)[k] = 0}

\* the eligible set of the freebie-aware policies
Eligible(x) == IF Freebies(x) # {} THEN Freebies(x) ELSE MakeCandidates(x)

\* the count recorded for walker w in the running iteration is not zero
Unsatisfied(w) == violated_constr_mat[w][n_iters - 1] # 0

\* the step of heuristic h from the early-stop check to the flip
SelectStepOf(h) == pc = "select" /\ heuristic = h /\ pc' = "loop"

-----------------------------------------------------------------------------
(* C15 *)

\* under the noise row ns the noisy gain of every unmasked candidate of x is
\* above the mask value
AboveMask(x, ns) ==
    \A k \in Eligible(x) :
       Scale * (MvArr(arch, x)[k] - BvArr(arch, x)[k]) + noise * ns[k] > MaskSKC

\* every sample keeps the noisy gain of each unmasked candidate of x above the
\* mask value: the noise rows are the products of the samples, so this is
\* AboveMask under every row
AllAboveMask(x) ==
    \A k \in Eligible(x) : \A smp \in RandnSamples :
       Scale * (MvArr(arch, x)[k] - BvArr(arch, x)[k]) + noise * smp > MaskSKC

\* C15: in walksat_SKC, for every unsatisfied walker and every noise row that
\* keeps the noisy gain of each unmasked candidate above -1000 (every row when
\* the noise is 0), the selected variable is a freebie if the walker has one
\* and a variable of make >= 1 otherwise; when every row does, that variable
\* is the one flipped.
C15_FreebieFirstSKC ==
    /\ []((pc = "select" /\ heuristic = "walksat_SKC") =>
            \A w \in Walkers : Unsatisfied(w) =>
               LET x == inputs[w]
               IN  /\ \A ns \in [Vars(arch) -> RandnSamples] : AboveMask(x, ns) =>
                         /\ Freebies(x) # {} => UpdateSKC(x, ns) \in Freebies(x)
                         /\ Freebies(x) = {} => UpdateSKC(x, ns) \in MakeCandidates(x)
                   /\ noise = 0 => AllAboveMask(x))
    /\ [][SelectStepOf("walksat_SKC") =>
            \A w \in Walkers : (Unsatisfied(w) /\ AllAboveMask(inputs[w])) =>
               /\ update'[w] \in Eligible(inputs[w])
               /\ inputs'[w] = flip_indices(inputs[w], update'[w])
               /\ inputs'[w][update'[w]] # inputs[w][update'[w]]]_vars

\* C15 witness: walksat_SKC, under noise that never reaches the mask, flipped
\* a freebie of a walker that also had a candidate of make >= 1 and break > 0
C15_Witness ==
    /\ heuristic = "walksat_SKC"
    /\ noise = 1
    /\ AfterSelect
    /\ \E w \in Walkers :
          /\ update[w] \in Freebies(PrevInput(w))
          /\ MakeCandidates(PrevInput(w)) \ Freebies(PrevInput(w)) # {}

-----------------------------------------------------------------------------
(* C16 *)

\* the least index of a non-empty set of variables
FirstOf(S) == CHOOSE k \in S : \A j \in S : k <= j

\* C16: in walksat_B2seq with one core, an unsatisfied walker that has a
\* freebie is flipped at a freebie, namely the argmin choice (the first
\* freebie), whatever the rank and the Bernoulli draw; an unsatisfied walker
\* without a freebie is flipped at a variable of make >= 1.
C16_FreebieAlwaysTakenB2seq ==
    [][(SelectStepOf("walksat_B2seq") /\ n_cores = 1) =>
         \A w \in Walkers : Unsatisfied(w) =>
            LET x == inputs[w]
            IN  /\ Freebies(x) # {} =>
                      /\ \A r \in RanksSKCseq(x) : \A u \in Uniform01Samples :
                            UpdateB2seq(x, r, u) = FirstOf(Freebies(x))
                      /\ update'[w] = FirstOf(Freebies(x))
                /\ Freebies(x) = {} => update'[w] \in MakeCandidates(x)
                /\ inputs'[w] = flip_indices(x, update'[w])
                /\ inputs'[w][update'[w]] # x[update'[w]]]_vars

\* C16 witness: walksat_B2seq with one core and noise 0 (the draw can exceed
\* the noise) flipped the first of several freebies of a walker
C16_Witness ==
    /\ heuristic = "walksat_B2seq"
    /\ n_cores = 1
    /\ noise = 0
    /\ AfterSelect
    /\ \E w \in Walkers :
          /\ Cardinality(Freebies(PrevInput(w))) >= 2
          /\ update[w] = FirstOf(Freebies(PrevInput(w)))

-----------------------------------------------------------------------------
(* C17 *)

\* the eligible set of x under the running sequential heuristic
EligibleSeq(x) ==
    IF heuristic = "walksat_Gseq" THEN MakeCandidates(x) ELSE Eligible(x)

\* the ranks that can be drawn for x under the running sequential heuristic
RanksSeq(x) ==
    IF heuristic = "walksat_Gseq" THEN RanksGseq(x) ELSE RanksSKCseq(x)

\* the random candidate of x at rank r under the running sequential heuristic
CandidateSeq(x, r) ==
    IF heuristic = "walksat_Gseq" THEN Update2Gseq(x, r) ELSE Update2SKCseq(x, r)

\* the final update of x under the running sequential heuristic
UpdateSeq(x, r, u) ==
    IF heuristic = "walksat_Gseq" THEN UpdateGseq(x, r, u) ELSE UpdateSKCseq(x, r, u)

\* C17: in walksat_Gseq and walksat_SKCseq, for every unsatisfied walker the
\* rank is drawn in [0, eligible count) and the candidate at every such rank
\* is a member of the walker's eligible set (never -1, never an ineligible
\* variable), so the variable flipped is eligible; for a satisfied walker the
\* final update is the no-op sentinel whatever the draws.
C17_RandomCandidateEligible ==
    [][(SelectStepOf("walksat_Gseq") \/ SelectStepOf("walksat_SKCseq")) =>
         \A w \in Walkers :
            LET x == inputs[w]
            IN  /\ Unsatisfied(w) =>
                      /\ RanksSeq(x) = 0 .. (Cardinality(EligibleSeq(x)) - 1)
                      /\ \A r \in RanksSeq(x) :
                            /\ CandidateSeq(x, r) # NoFlip
                            /\ CandidateSeq(x, r) \in EligibleSeq(x)
                      /\ update'[w] \in EligibleSeq(x)
                /\ ~Unsatisfied(w) =>
                      /\ \A r \in RanksSeq(x) : \A u \in Uniform01Samples :
                            UpdateSeq(x, r, u) = NoFlip
                      /\ update'[w] = NoFlip
                      /\ inputs'[w] = x]_vars

\* C17 witness: walksat_SKCseq flipped one walker at an eligible variable that
\* is not the greedy choice, that is at the random candidate, and left a
\* satisfied walker alone
C17_Witness ==
    /\ heuristic = "walksat_SKCseq"
    /\ AfterSelect
    /\ \E w1, w2 \in Walkers :
          /\ update[w1] # NoFlip
          /\ update[w1] # ArgMax(YRowSKCseq(PrevInput(w1)))
          /\ update[w2] = NoFlip
          /\ violated_constr_mat[w2][n_iters - 1] = 0

-----------------------------------------------------------------------------
(* C18 *)

\* literal l is true under assignment x
LitTrue(x, l) == IF l % 2 = 0 THEN x[l \div 2] = 1 ELSE x[l \div 2] = 0

\* clause c has no true literal under x
ClauseUnsat(x, c) == \A l \in arch.cl[c] : ~LitTrue(x, l)

\* the variables whose false literal occurs in some unsatisfied clause
UnsatVars(x) ==
    {k \in Vars(arch) :
        \E c \in Clauses(arch) :
           /\ ClauseUnsat(x, c)
           /\ (IF x[k] = 0 THEN 2 * k ELSE 2 * k + 1) \in arch.cl[c]}

\* C18: in walksat_g, on an incidence encoding without empty clause, the cell
\* written for walker w in iteration it is the number of variables whose
\* currently false literal occurs in an unsatisfied clause; it is 0 exactly
\* when the walker's assignment at the start of the iteration satisfies every
\* clause; and the literal vector has literal 2k equal to variable k and
\* literal 2k+1 equal to its negation.
C18_CountSemanticsG ==
    [][(heuristic = "walksat_g" /\ pc = "loop" /\ n_iters' = n_iters + 1
          /\ \A c \in Clauses(arch) : arch.cl[c] # {}) =>
         \A w \in Walkers :
            /\ violated_constr_mat'[w][n_iters] = Cardinality(UnsatVars(inputs[w]))
            /\ violated_constr_mat'[w][n_iters] = 0
                  <=> \A c \in Clauses(arch) : ~ClauseUnsat(inputs[w], c)
            /\ \A k \in Vars(arch) :
                  /\ LitInputs(arch, inputs[w])[2 * k] = inputs[w][k]
                  /\ LitInputs(arch, inputs[w])[2 * k + 1] = 1 - inputs[w][k]]_vars

\* C18 witness: walksat_g recorded 1 for a walker over two variables, then 0
\* after the flip
C18_Witness ==
    /\ heuristic = "walksat_g"
    /\ arch.nv = 2
    /\ n_iters >= 2
    /\ \E w \in Walkers :
          /\ violated_constr_mat[w][0] = 1
          /\ violated_constr_mat[w][1] = 0

-----------------------------------------------------------------------------
(* C19 *)

\* C19: no step of walksat_m, for one core or more, changes the constraint
\* encoding: the instance behind tcam and ram, the matrices themselves, and
\* the partition into cores behind tcam_cores and ram_cores.
C19_EncodingUnchanged ==
    [][heuristic = "walksat_m" =>
         /\ arch' = arch
         /\ TcamOf(arch') = TcamOf(arch)
         /\ RamOf(arch') = RamOf(arch)
         /\ tcam_cores' = tcam_cores]_vars

\* C19 witness: a multi-core flip step of walksat_m under noise has written
\* the sentinel for one walker and flipped another, and every clause row is
\* still held by a core
C19_Witness ==
    /\ heuristic = "walksat_m"
    /\ n_cores > 1
    /\ noise = 1
    /\ AfterSelect
    /\ \E w1, w2 \in Walkers : update[w1] = NoFlip /\ update[w2] # NoFlip
    /\ UNION {tcam_cores[c] : c \in DOMAIN tcam_cores} = Clauses(arch)

-----------------------------------------------------------------------------
(* C20 *)

\* C20: solve raises the unknown-heuristic error only for names that are not
\* keys of the dispatch table, and a config without 'heuristic' is not among
\* them: its default name is registered and solve goes on to call walksat_m.
C20_DefaultHeuristicRegistered ==
    /\ pc = "raise_unknown_heuristic" => heuristic_name \notin DOMAIN heuristics_dict
    /\ config_heuristic = Absent =>
          /\ pc # "raise_unknown_heuristic"
          /\ pc # "solve" => heuristic = "walksat_m"

====
